---- MODULE Spec2Model ----
(***************************************************************************)
(* Model of tocer (src/src/lib.rs): Toc::from_reader and the line parsers   *)
(* key_value_pair_begin, key, value, key_value_pair and file_path.          *)
(*                                                                          *)
(* A Rust str is modelled as a sequence of characters; each character has   *)
(* a UTF-8 width, so that byte-indexed slices (&input[..i]) are computed as *)
(* the code computes them, including the panic on a non-boundary index.     *)
(***************************************************************************)
EXTENDS Integers, Sequences, FiniteSets, TLC

\* ---------------------------------------------------------------- bounds
MaxLineLen == 4
MaxLines == 3

\* ------------------------------------------------------------ characters
Hash == "#"
Colon == ":"
Space == " "
Tab == "\t"
CR == "\r"
LF == "\n"
\* U+00E9, the one two-byte character of the model (as in "João", lib.rs:151)
EAcute == "U+00E9"

\* char::is_whitespace, restricted to the characters of the model
WhiteSpace == {Space, Tab, CR, LF}

\* char::len_utf8
Utf8Len(c) == IF c = EAcute THEN 2 ELSE 1

RECURSIVE ByteLen(_)
\* str::len: the length of a str in bytes
ByteLen(s) == IF s = <<>> THEN 0 ELSE Utf8Len(Head(s)) + ByteLen(Tail(s))

\* The number of characters before byte index i, or -1 when i is not a
\* character boundary of s (str::is_char_boundary is then false).
CharsBefore(s, i) ==
    LET ks == {k \in 0..Len(s) : ByteLen(SubSeq(s, 1, k)) = i}
    IN  IF ks = {} THEN -1 ELSE CHOOSE k \in ks : TRUE

\* ------------------------------------------------------- parser results
Ok(v) == [t |-> "Ok", v |-> v]
Err(v) == [t |-> "Err", v |-> v]
Panic == [t |-> "Panic", v |-> <<>>]

\* &s[..i]: panics when i is not a character boundary
slice_to(s, i) ==
    LET n == CharsBefore(s, i)
    IN  IF n = -1 THEN Panic ELSE Ok(SubSeq(s, 1, n))

\* &s[i..]: panics when i is not a character boundary
slice_from(s, i) ==
    LET n == CharsBefore(s, i)
    IN  IF n = -1 THEN Panic ELSE Ok(SubSeq(s, n + 1, Len(s)))

RECURSIVE trim_start(_)
trim_start(s) ==
    IF s = <<>> THEN <<>>
    ELSE IF Head(s) \in WhiteSpace THEN trim_start(Tail(s)) ELSE s

RECURSIVE trim_end(_)
trim_end(s) ==
    IF s = <<>> THEN <<>>
    ELSE IF s[Len(s)] \in WhiteSpace THEN trim_end(SubSeq(s, 1, Len(s) - 1)) ELSE s

\* str::trim
trim(s) == trim_end(trim_start(s))

\* ------------------------------------------------------------ the parsers
key_value_pair_begin(input) ==
    IF Len(input) >= 2 /\ input[1] = Hash /\ input[2] = Hash
    THEN slice_from(input, 2)
    ELSE Err(input)

\* for (i, ch) in input.chars().enumerate(): i counts characters, and is
\* then used as a byte index.
key(input) ==
    LET cs == {j \in 1..Len(input) : input[j] = Colon}
    IN  IF cs = {} THEN Err(input)
        ELSE LET i == (CHOOSE j \in cs : \A j2 \in cs : j <= j2) - 1
                 k == slice_to(input, i)
                 rest == slice_from(input, i)
             IN  IF k.t = "Panic" \/ rest.t = "Panic" THEN Panic
                 ELSE Ok([k |-> trim(k.v), rest |-> rest.v])

value(input) ==
    IF input = <<>> \/ Head(input) # Colon THEN Err(input)
    ELSE LET r == slice_from(input, 1)
         IN  IF r.t = "Panic" THEN Panic ELSE Ok(trim(r.v))

key_value_pair(input) ==
    LET b == key_value_pair_begin(input)
    IN  IF b.t # "Ok" THEN b
        ELSE LET kr == key(b.v)
             IN  IF kr.t # "Ok" THEN kr
                 ELSE LET vr == value(kr.v.rest)
                      IN  IF vr.t # "Ok" THEN vr
                          ELSE Ok([k |-> kr.v.k, v |-> vr.v])

\* file_path without the test for a leading '#'
file_path_AnyLine(input) == Ok(trim(input))

\* file_path without the trim
file_path_NoTrim(input) ==
    IF input # <<>> /\ Head(input) = Hash THEN Err(input) ELSE Ok(input)

file_path(input) ==
    IF input # <<>> /\ Head(input) = Hash THEN Err(input) ELSE Ok(trim(input))

\* ------------------------------------------------------------ collections
\* an insert that keeps the value already stored under the key
insert_KeepFirst(m, k, v) ==
    [x \in DOMAIN m \cup {k} |-> IF x \in DOMAIN m THEN m[x] ELSE v]

\* HashMap::insert
insert(m, k, v) == [x \in DOMAIN m \cup {k} |-> IF x = k THEN v ELSE m[x]]

\* a push at the front of the vector
push_Front(v, x) == <<x>> \o v

\* Vec::push
push(v, x) == Append(v, x)

EmptyMap == [x \in {} |-> <<>>]

\* a read_line that reports end of input on a last line without terminator
read_line_DropUnterminated(stream, at) ==
    LET nl == {j \in (at + 1)..Len(stream) : stream[j] = LF}
    IN  IF nl = {} THEN <<>>
        ELSE SubSeq(stream, at + 1, CHOOSE j \in nl : \A j2 \in nl : j <= j2)

\* BufRead::read_line on the unread rest of the stream: the characters up to
\* and including the first LF, or up to the end of the stream.
read_line(stream, at) ==
    LET nl == {j \in (at + 1)..Len(stream) : stream[j] = LF}
    IN  IF nl = {} THEN SubSeq(stream, at + 1, Len(stream))
        ELSE SubSeq(stream, at + 1, CHOOSE j \in nl : \A j2 \in nl : j <= j2)

\* The branch the loop body takes on a line.
classify(l) ==
    LET kv == key_value_pair(l)
    IN  IF kv.t = "Panic" THEN "Panic"
        ELSE IF kv.t = "Ok" THEN "Tag"
        ELSE IF file_path(l).t = "Ok" THEN "File"
        ELSE "Discard"

\* The loop body of from_reader (lib.rs:70-76) applied to one line.
loop_body(toc, l) ==
    LET kv == key_value_pair(l)
        fp == file_path(l)
    IN  IF kv.t = "Panic" THEN Panic
        ELSE IF kv.t = "Ok"
        THEN Ok([tags |-> insert(toc.tags, kv.v.k, kv.v.v), files |-> toc.files])
        ELSE IF fp.t = "Ok"
        THEN Ok([tags |-> toc.tags, files |-> push(toc.files, fp.v)])
        ELSE Ok(toc)

RECURSIVE read_all(_, _, _)
\* The while loop of from_reader on a stream that reads without fault.
read_all(stream, at, toc) ==
    LET l == read_line(stream, at)
        r == loop_body(toc, l)
    IN  IF Len(l) = 0 THEN Ok(toc)
        ELSE IF r.t = "Panic" THEN Panic
        ELSE read_all(stream, at + Len(l), r.v)

\* Toc::from_reader as a function of the stream's contents (no read fault).
from_reader(stream) == read_all(stream, 0, [tags |-> EmptyMap, files |-> <<>>])

\* ------------------------------------------------------------ the inputs
Alphabet == {Hash, Colon, Space, "a", EAcute}

\* Every line of at most MaxLineLen characters over Alphabet.
ShortLines == UNION {[1..n -> Alphabet] : n \in 0..MaxLineLen}

\* Lines in the shapes of the repository's tests (lib.rs:126-134, 148-157).
TocLines ==
    { <<"a">>,
      <<"b", Space, Space>>,
      <<>>,
      <<Hash, Space, "a">>,
      <<Hash, Hash, Space, "a">>,
      <<Hash, Hash, "a", Colon, "a">>,
      <<Hash, Hash, Space, "a", Space, Colon, Space, "b", Colon, "b", Space>>,
      <<Hash, Hash, Tab, "b", Tab, Colon, "a", CR>>,
      <<Hash, Hash, EAcute, "a", Colon, "b">>,
      <<Hash, Hash, "a", EAcute, Colon, "b">> }

RECURSIVE Join(_)
\* The stream holding the lines ls, each followed by LF.
Join(ls) == IF ls = <<>> THEN <<>> ELSE Head(ls) \o <<LF>> \o Join(Tail(ls))

\* Streams: one short line, or up to MaxLines test-shaped lines; the last line
\* with or without its terminator.
Terminated ==
    {l \o <<LF>> : l \in ShortLines}
    \cup UNION {{Join(ls) : ls \in [1..n -> TocLines]} : n \in 0..MaxLines}

Inputs == Terminated \cup {SubSeq(s, 1, Len(s) - 1) : s \in Terminated \ {<<>>}}

\* ------------------------------------------------------------ the result
NoResult == [status |-> "None"]
OkToc(tg, fl) == [status |-> "Ok", toc |-> [tags |-> tg, files |-> fl]]
IoError == [status |-> "Err", error |-> "io"]

\* ------------------------------------------------------------- the state
VARIABLES
    input,   \* the contents of the reader handed to from_reader
    pos,     \* characters of input consumed by read_line so far
    line,    \* the String buffer `line`
    tags,    \* the local HashMap `tags`
    files,   \* the local Vec `files`
    pc,      \* "loop": at the while head; "done": returned Ok;
             \* "err": returned Err; "panic": unwound
    io,      \* outcome of the last read_line call: none, line, eof, fault
    result   \* the value from_reader returned, if any

vars == <<input, pos, line, tags, files, pc, io, result>>


Init ==
    /\ input \in Inputs
    /\ pos = 0
    /\ line = <<>>
    /\ tags = EmptyMap
    /\ files = <<>>
    /\ pc = "loop"
    /\ io = "none"
    /\ result = NoResult

\* read_line returned n != 0 and key_value_pair matched: tags.insert
InsertTag ==
    /\ pc = "loop"
    /\ Len(read_line(input, pos)) # 0
    /\ LET l == read_line(input, pos)
           kv == key_value_pair(l)
       IN  /\ kv.t = "Ok"
           /\ tags' = insert(tags, kv.v.k, kv.v.v)
           /\ pos' = pos + Len(l)
    /\ line' = <<>>
    /\ io' = "line"
    /\ UNCHANGED <<input, files, pc, result>>

\* read_line returned n != 0, key_value_pair failed, file_path matched: files.push
PushFile ==
    /\ pc = "loop"
    /\ Len(read_line(input, pos)) # 0
    /\ LET l == read_line(input, pos)
           fp == file_path(l)
       IN  /\ key_value_pair(l).t = "Err"
           /\ fp.t = "Ok"
           /\ files' = push(files, fp.v)
           /\ pos' = pos + Len(l)
    /\ line' = <<>>
    /\ io' = "line"
    /\ UNCHANGED <<input, tags, pc, result>>

\* read_line returned n != 0 and neither parser matched: the line is dropped
Discard ==
    /\ pc = "loop"
    /\ Len(read_line(input, pos)) # 0
    /\ LET l == read_line(input, pos)
       IN  /\ key_value_pair(l).t = "Err"
           /\ file_path(l).t = "Err"
           /\ pos' = pos + Len(l)
    /\ line' = <<>>
    /\ io' = "line"
    /\ UNCHANGED <<input, tags, files, pc, result>>

\* read_line returned n != 0 and key sliced the line off a character
\* boundary: the thread panics and from_reader returns nothing
SlicePanic ==
    /\ pc = "loop"
    /\ Len(read_line(input, pos)) # 0
    /\ LET l == read_line(input, pos)
       IN  /\ key_value_pair(l).t = "Panic"
           /\ line' = l
           /\ pos' = pos + Len(l)
    /\ pc' = "panic"
    /\ io' = "line"
    /\ UNCHANGED <<input, tags, files, result>>

\* read_line returned Ok(0): the loop ends and Ok(Toc { tags, files }) is returned
Eof ==
    /\ pc = "loop"
    /\ Len(read_line(input, pos)) = 0
    /\ pc' = "done"
    /\ io' = "eof"
    /\ result' = OkToc(tags, files)
    /\ UNCHANGED <<input, pos, line, tags, files>>

\* a fault handler that returns what was accumulated so far
ReadFault_BestEffort ==
    /\ pc = "loop"
    /\ pc' = "done"
    /\ io' = "fault"
    /\ result' = OkToc(tags, files)
    /\ UNCHANGED <<input, pos, line, tags, files>>

\* read_line returned Err(e), at any call (a fault of the reader, or bytes that
\* are not UTF-8): `?` returns Err(e) at once
ReadFault ==
    /\ pc = "loop"
    /\ pc' = "err"
    /\ io' = "fault"
    /\ result' = IoError
    /\ UNCHANGED <<input, pos, line, tags, files>>

Next == InsertTag \/ PushFile \/ Discard \/ SlicePanic \/ Eof \/ ReadFault

Spec == Init /\ [][Next]_vars

\* ------------------------------------------------- what the claims speak of
Range(f) == {f[i] : i \in DOMAIN f}

RECURSIVE SplitLines(_)
\* The lines of a text, each with its terminator when it has one.
SplitLines(s) ==
    IF s = <<>> THEN <<>>
    ELSE LET n == IF LF \in Range(s)
                  THEN CHOOSE j \in 1..Len(s) :
                           s[j] = LF /\ \A j2 \in 1..(j - 1) : s[j2] # LF
                  ELSE Len(s)
         IN  <<SubSeq(s, 1, n)>> \o SplitLines(SubSeq(s, n + 1, Len(s)))

\* The lines from_reader has read so far, and the last of them.
LinesRead == SplitLines(SubSeq(input, 1, pos))
LastLine == LinesRead[Len(LinesRead)]

StartsWithHash(l) == l # <<>> /\ Head(l) = Hash

\* The lines that do not start with '#', in their order.
FilePathLines(ls) == SelectSeq(ls, LAMBDA l : ~StartsWithHash(l))

\* C1: after every prefix of lines read, files lists the lines that do not
\* start with '#', trimmed, in input order, one entry per line (duplicates
\* kept).
C1_FilesInInputOrder ==
    pc \in {"loop", "done"} =>
        LET fl == FilePathLines(LinesRead)
        IN  /\ Len(files) = Len(fl)
            /\ \A i \in 1..Len(fl) : files[i] = trim(fl[i])

\* Three lines read, a path on the first and the third and a '#' line between.
C1_Witness ==
    /\ pc = "loop"
    /\ Len(LinesRead) = 3
    /\ StartsWithHash(LinesRead[2])
    /\ files = << <<"a">>, <<"a">> >>

\* A line that starts with "##" and holds a colon; the text between "##" and
\* its first colon, and the text after that colon, trimmed.
TagShaped(l) == Len(l) >= 2 /\ l[1] = Hash /\ l[2] = Hash /\ Colon \in Range(l)
FirstColon(l) == CHOOSE j \in 1..Len(l) : l[j] = Colon /\ \A j2 \in 1..(j - 1) : l[j2] # Colon
TextKey(l) == trim(SubSeq(l, 3, FirstColon(l) - 1))
TextValue(l) == trim(SubSeq(l, FirstColon(l) + 1, Len(l)))

\* The tag-shaped lines among ls, by index, and the last one of key k.
TagLines(ls) == {i \in 1..Len(ls) : TagShaped(ls[i])}
LastTagLine(ls, k) ==
    CHOOSE i \in TagLines(ls) :
        /\ TextKey(ls[i]) = k
        /\ \A j \in TagLines(ls) : TextKey(ls[j]) = k => j <= i

\* C2: after any lines read, every key of tags is the key of a tag line read
\* and tags holds for it the value of the last tag line of that key, whatever
\* earlier lines of the key said; only a read fault makes from_reader return
\* an error.
C2_LastWriteWins ==
    /\ pc \in {"loop", "done"} =>
        LET ls == LinesRead
        IN  \A k \in DOMAIN tags :
                /\ \E i \in TagLines(ls) : TextKey(ls[i]) = k
                /\ tags[k] = TextValue(ls[LastTagLine(ls, k)])
    /\ pc = "err" => io = "fault"

\* Two tag lines of the same key and different values were read.
C2_Witness ==
    /\ pc = "done"
    /\ LET ls == LinesRead
       IN  \E i \in TagLines(ls), j \in TagLines(ls) :
               /\ i < j
               /\ TextKey(ls[i]) = TextKey(ls[j])
               /\ TextValue(ls[i]) # TextValue(ls[j])
               /\ tags[TextKey(ls[j])] = TextValue(ls[j])

\* C3: a step that reads a line starting with '#' leaves files as it was, and
\* a line starting with "##" that holds no colon leaves tags as it was too.
C3_HashLineNeverAFile ==
    [][LET l == read_line(input, pos)
       IN  (pc = "loop" /\ StartsWithHash(l)) =>
               /\ files' = files
               /\ (Len(l) >= 2 /\ l[2] = Hash /\ Colon \notin Range(l)) => tags' = tags
      ]_vars

\* "## a" was read and processed, and tags and files are still empty.
C3_Witness ==
    /\ pc = "loop"
    /\ pos > 0
    /\ LastLine = <<Hash, Hash, Space, "a", LF>>
    /\ files = <<>>
    /\ tags = EmptyMap

\* C4: once a line that starts with "##" and holds a colon has been read,
\* whatever its characters, tags maps the trimmed text before its first colon
\* to the trimmed text after it.
C4_TagKeyValue ==
    (pos > 0 /\ pc # "err" /\ TagShaped(LastLine)) =>
        /\ pc # "panic"
        /\ TextKey(LastLine) \in DOMAIN tags
        /\ tags[TextKey(LastLine)] = TextValue(LastLine)

\* C5: once a tag-shaped line whose key is empty after trimming has been
\* read, tags holds no entry under the empty key.
C5_EmptyKeyDiscarded ==
    (pos > 0 /\ TagShaped(LastLine) /\ TextKey(LastLine) = <<>>) =>
        <<>> \notin DOMAIN tags

\* C6 as stated: a step that reads an empty line (its terminator only) changes
\* neither tags nor files.
C6_BlankLineIgnored ==
    [][(pc = "loop" /\ read_line(input, pos) = <<LF>>) =>
           (tags' = tags /\ files' = files)]_vars

\* C6 as amended: a step that reads an empty line (its terminator only) and
\* goes on changes nothing in tags and appends one empty string to files.
C6_BlankLineIsAFile ==
    [][(pc = "loop" /\ read_line(input, pos) = <<LF>> /\ io' = "line") =>
           (tags' = tags /\ files' = Append(files, <<>>) /\ pc' = "loop")]_vars

\* An empty line was read after a path, and files ends with the empty string.
C6_Witness ==
    /\ pc = "loop"
    /\ Len(LinesRead) = 2
    /\ LastLine = <<LF>>
    /\ files = << <<"a">>, <<>> >>

\* C7: from_reader returns Ok only at end of input, with every line read, the
\* last one included when it has no terminator; the result is the Toc of the
\* tags and files gathered, files holds one entry per line not starting with
\* '#' and no more, an unterminated last line counts as the same line
\* terminated would, and the empty stream gives empty tags and files.
C7_EndOfInput ==
    pc = "done" =>
        /\ io = "eof"
        /\ pos = Len(input)
        /\ result = OkToc(tags, files)
        /\ Len(files) = Len(FilePathLines(SplitLines(input)))
        /\ Cardinality(DOMAIN tags) <= Cardinality(TagLines(SplitLines(input)))
        /\ (input # <<>> /\ input[Len(input)] # LF) =>
               from_reader(input \o <<LF>>) = Ok(result.toc)
        /\ input = <<>> => (tags = EmptyMap /\ files = <<>>)

\* Returned Ok on a stream whose last line, a path, has no terminator.
C7_Witness ==
    /\ pc = "done"
    /\ Len(LinesRead) = 2
    /\ LastLine = <<"a">>
    /\ files[Len(files)] = <<"a">>
    /\ result.toc.files = files

\* C8: no step follows a returned error, and a step whose read_line faults
\* reads nothing more and returns the I/O error, a value that holds no Toc.
C8_ReadFaultAborts ==
    [][/\ pc # "err"
       /\ io' = "fault" =>
              /\ pc' = "err"
              /\ pos' = pos
              /\ result'.status = "Err"
              /\ "toc" \notin DOMAIN result']_vars

\* The read faulted after a tag and a path had been gathered, with input left.
C8_Witness ==
    /\ io = "fault"
    /\ pc = "err"
    /\ result = IoError
    /\ tags # EmptyMap
    /\ files # <<>>
    /\ pos < Len(input)

\* C9: on a stream that reads without fault from_reader never panics and
\* never returns an error.
C9_NoContentFailure ==
    /\ pc # "panic"
    /\ pc = "err" => io = "fault"

\* The right-biased merge of two tag maps.
Merge(ta, tb) ==
    [k \in DOMAIN ta \cup DOMAIN tb |-> IF k \in DOMAIN tb THEN tb[k] ELSE ta[k]]

\* The input cut after p characters into manifests A and B, each parsed.
Cut(p) ==
    [a |-> from_reader(SubSeq(input, 1, p)),
     b |-> from_reader(SubSeq(input, p + 1, Len(input)))]

\* A and B both parse and have disjoint file lists.
Parses(c) ==
    /\ c.a.t = "Ok"
    /\ c.b.t = "Ok"
    /\ Range(c.a.v.files) \cap Range(c.b.v.files) = {}

\* The Toc returned for the whole input has A's files followed by B's, and the
\* right-biased merge of their tags.
Concatenates(c) ==
    /\ result.toc.files = c.a.v.files \o c.b.v.files
    /\ result.toc.tags = Merge(c.a.v.tags, c.b.v.tags)

\* A is empty or ends with a line terminator.
AtLineStart(p) == p = 0 \/ input[p] = LF

\* C10 as stated: whenever from_reader returns a Toc, for every cut of the
\* input into A followed by B.
C10_ConcatAnyCut ==
    pc = "done" =>
        \A p \in 0..Len(input) :
            LET c == Cut(p) IN Parses(c) => Concatenates(c)

\* C10 as amended: for every cut of the input into A followed by B where A is
\* empty or ends with a line terminator, from_reader returns a Toc for the
\* whole input, and it is the concatenation.
C10_ConcatAtLineStart ==
    pc \in {"done", "panic"} =>
        \A p \in 0..Len(input) :
            AtLineStart(p) =>
                LET c == Cut(p) IN Parses(c) => (pc = "done" /\ Concatenates(c))

\* A and B both hold the key "a" with different values, and B holds a path.
C10_Witness ==
    /\ pc = "done"
    /\ \E p \in 1..(Len(input) - 1) :
        /\ AtLineStart(p)
        /\ LET c == Cut(p)
           IN  /\ Parses(c)
               /\ <<"a">> \in DOMAIN c.a.v.tags
               /\ <<"a">> \in DOMAIN c.b.v.tags
               /\ c.a.v.tags[<<"a">>] # c.b.v.tags[<<"a">>]
               /\ c.b.v.files # <<>>
               /\ result.toc.tags[<<"a">>] = c.b.v.tags[<<"a">>]

====
